---- MODULE Spec2Model ----
(***************************************************************************)
(* Photo lifecycle of photo-map-app: the photo_markers table, the React    *)
(* client of src/src/App.tsx (capture, like, dislike, realtime feed) and   *)
(* the delete-expired-photos edge function.                                *)
(*                                                                         *)
(* Time is counted in hours.  The client computes expiry in milliseconds   *)
(* (168 * 60 * 60 * 1000) on ISO strings of millisecond precision, which   *)
(* Date parses and prints without loss, so an expiry is kept as a whole    *)
(* number of hours.  SQL NULL is the empty tuple and a timestamp t is the  *)
(* one-element tuple <<t>>.                                                *)
(***************************************************************************)
EXTENDS Integers, Sequences, FiniteSets, TLC

VARIABLES now, photo_markers, nextId, session, rendered, feed, sweep,
          storeUpdates, lastOp, blobs, comments, viewCalls, mount

vars == <<now, photo_markers, nextId, session, rendered, feed, sweep,
          storeUpdates, lastOp, blobs, comments, viewCalls, mount>>

\* ---------------------------------------------------------------- bounds
MaxNow == 252
MaxPhotos == 9
MaxClicks == 3
MaxClickId == 3
FeedCap == 2
MaxComments == 1
MaxReaperClickId == 2
MaxActorClickId == 1
MaxActorPhotos == 8
MaxViewCalls == 3

\* ------------------------------------------------------------- constants
LIFESPAN_HOURS == 168
ZONE_INFINITE_MAX == 7

\* The clock is observed every half lifespan; the store starts with one zone
\* at the threshold.
TickHours == LIFESPAN_HOURS \div 2
InitialPhotos == ZONE_INFINITE_MAX

Positions == {"posA2", "posB"}
PhotoIds == 1..MaxPhotos
ClickIds == 1..MaxClickId

NULL == <<>>

\* The views column of a row that is inserted without it.
DefaultViews == 0

\* h3-js latLngToCell(lat, lng, 7): nearby coordinates share a cell.
latLngToCell(pos) == IF pos \in {"posA1", "posA2"} THEN "cellA" ELSE "cellB"

\* new Date(new Date(expires_at).getTime() +/- 168h).toISOString()
ExpiryPlus(e) == <<e[1] + LIFESPAN_HOURS>>
ExpiryMinus(e) == <<e[1] - LIFESPAN_HOURS>>

\* ------------------------------------------------------ sequence helpers
RECURSIVE SeqOfSet(_)
SeqOfSet(S) ==
  IF S = {} THEN <<>>
  ELSE LET m == CHOOSE x \in S : \A y \in S : x <= y
       IN <<m>> \o SeqOfSet(S \ {m})

MapSeq(s, F(_)) == [i \in 1..Len(s) |-> F(s[i])]

\* Array.prototype.find: the first entry with that id
FindMarker(ms, id) == ms[CHOOSE i \in 1..Len(ms) :
                          /\ ms[i].id = id
                          /\ \A j \in 1..(i - 1) : ms[j].id # id]

\* --------------------------------------------------------------- the store
Ids == DOMAIN photo_markers
Sessions == DOMAIN session
Sweeps == DOMAIN sweep

ZoneOf(store, cell) == {i \in DOMAIN store : store[i].h3_res7 = cell}

\* The zone rule of the photo_markers table, evaluated when a row is
\* inserted and when rows are deleted.  Insert: a zone that holds eight or
\* more photos with the new one is reset: counters to 0 and one expiry,
\* now + 7 days, for every photo of the zone.
RebalanceOnInsert(store, cell, t) ==
  IF Cardinality(ZoneOf(store, cell)) > ZONE_INFINITE_MAX
  THEN [i \in DOMAIN store |->
          IF store[i].h3_res7 = cell
          THEN [store[i] EXCEPT !.likes = 0, !.dislikes = 0,
                                !.expires_at = <<t + LIFESPAN_HOURS>>]
          ELSE store[i]]
  ELSE store

\* A delete that leaves the zones as they are.
NoRebalanceOnDelete(store, cells) == store

\* Delete: a zone left with seven or fewer photos reverts to infinite life
\* and keeps its counters.
RebalanceOnDelete(store, cells) ==
  [i \in DOMAIN store |->
     IF /\ store[i].h3_res7 \in cells
        /\ Cardinality(ZoneOf(store, store[i].h3_res7)) <= ZONE_INFINITE_MAX
     THEN [store[i] EXCEPT !.expires_at = NULL]
     ELSE store[i]]

\* postgres_changes events of one statement, in id order; the events of
\* one statement reach a subscriber together, as one batch of the feed.
UpdateEvents(old, new) ==
  LET changed == {i \in DOMAIN old \cap DOMAIN new : old[i] # new[i]}
  IN MapSeq(SeqOfSet(changed), LAMBDA i : [eventType |-> "UPDATE", row |-> new[i]])

DeleteEvents(ids) ==
  MapSeq(SeqOfSet(ids), LAMBDA i : [eventType |-> "DELETE", row |-> [id |-> i]])

\* The objects of the storage bucket 'photos' that belong to photos:
\* full/<fileId>.jpg and thumb/<fileId>.jpg.
Assets(ids) == {"full", "thumb"} \X ids

\* The events go to the channels that are subscribed.
Publish(evs) ==
  [a \in Sessions |-> IF mount[a].subscribed THEN Append(feed[a], evs) ELSE feed[a]]

\* Every session may have FeedCap batches pending, and one more for each
\* other session that publishes.
FeedHasRoom ==
  \A a \in Sessions : Len(feed[a]) < FeedCap + Cardinality(Sessions) - 1

\* database.getMarkers: order('timestamp', descending), limit(100)
GetMarkers ==
  LET RECURSIVE Ordered(_)
      Ordered(S) ==
        IF S = {} THEN <<>>
        ELSE LET m == CHOOSE x \in S : \A y \in S :
                        \/ photo_markers[x].timestamp > photo_markers[y].timestamp
                        \/ /\ photo_markers[x].timestamp = photo_markers[y].timestamp
                           /\ x <= y
             IN <<photo_markers[m]>> \o Ordered(S \ {m})
  IN Ordered(Ids)

\* ------------------------------------------------------------------ Init
InitialRow(i) ==
  [id |-> i, position |-> "posA1", h3_res7 |-> latLngToCell("posA1"),
   timestamp |-> 0, likes |-> 0, dislikes |-> 0, expires_at |-> NULL,
   views |-> DefaultViews]

EmptySession ==
  [markers |-> <<>>, userLikes |-> 0, userDislikes |-> 0,
   cardInteractions |-> [i \in {} |-> "none"]]

\* The App component after its mount effect: subscribed to the change feed
\* and the marker list loaded from the store.
LoadedSession ==
  [EmptySession EXCEPT !.markers = [i \in 1..InitialPhotos |-> InitialRow(i)]]

NoOp == [op |-> "none"]

\* The mount effect of a component has run to its end: the channel is
\* subscribed and loadMarkers has returned.
Mounted == [pc |-> "loaded", mounted |-> TRUE, subscribed |-> TRUE, data |-> <<>>]

\* No popup is being opened: no call of increment_photo_marker_views is in
\* flight, and none has run.
NoViewCalls ==
  [call |-> [a \in {} |-> 0], ran |-> [i \in PhotoIds |-> 0]]

\* One zone one photo short of competition, one open session, one sweeper.
Init ==
  /\ now = 0
  /\ photo_markers = [i \in 1..InitialPhotos |-> InitialRow(i)]
  /\ nextId = InitialPhotos + 1
  /\ session = [a \in {"a1"} |-> LoadedSession]
  /\ rendered = [a \in {"a1"} |-> [state |-> LoadedSession, shown |-> 1..InitialPhotos]]
  /\ feed = [a \in {"a1"} |-> <<>>]
  /\ sweep = [s \in {"s1"} |-> [pc |-> "idle", expiredIds |-> {}]]
  /\ storeUpdates = [a \in {"a1"} |-> [i \in PhotoIds |-> 0]]
  /\ lastOp = NoOp
  /\ blobs = Assets(1..InitialPhotos)
  /\ comments = {}
  /\ viewCalls = NoViewCalls
  /\ mount = [a \in DOMAIN session |-> Mounted]

\* --------------------------------------------------------------- actions
\* The clock advances; nothing is re-rendered by the passage of time.
Tick ==
  /\ now + TickHours <= MaxNow
  /\ now' = now + TickHours
  /\ lastOp' = NoOp
  /\ UNCHANGED <<photo_markers, nextId, session, rendered, feed, sweep,
                 storeUpdates, blobs, comments, viewCalls, mount>>

\* isMarkerExpired: Date.now() > new Date(marker.expires_at).getTime()
isMarkerExpired(m, t) == m.expires_at # NULL /\ t > m.expires_at[1]

\* A render: the handlers close over the committed state, and the popups
\* (with their like and dislike buttons) exist for the markers that are not
\* expired when the list is rendered.
Snapshot(st, t) ==
  [state |-> st,
   shown |-> {st.markers[i].id : i \in {j \in 1..Len(st.markers) :
                                          ~isMarkerExpired(st.markers[j], t)}}]

\* The subscription callback of the App component.
ApplyEvent(ms, ev) ==
  CASE ev.eventType = "INSERT" -> Append(ms, ev.row)
    [] ev.eventType = "UPDATE" ->
         MapSeq(ms, LAMBDA m : IF m.id = ev.row.id THEN ev.row ELSE m)
    [] OTHER -> SelectSeq(ms, LAMBDA m : m.id # ev.row.id)

RECURSIVE ApplyEvents(_, _)
ApplyEvents(ms, evs) ==
  IF evs = <<>> THEN ms ELSE ApplyEvents(ApplyEvent(ms, Head(evs)), Tail(evs))

\* The feed delivers the next batch; the component re-renders.
FeedDeliver(a) ==
  /\ feed[a] # <<>>
  /\ feed' = [feed EXCEPT ![a] = Tail(feed[a])]
  /\ session' = [session EXCEPT ![a].markers = ApplyEvents(session[a].markers, Head(feed[a]))]
  /\ rendered' = [rendered EXCEPT ![a] = Snapshot(session'[a], now)]
  /\ lastOp' = NoOp
  /\ UNCHANGED <<now, photo_markers, nextId, sweep, storeUpdates,
                 blobs, comments, viewCalls, mount>>

\* React re-renders the component with the state the handlers queued.
Render(a) ==
  /\ rendered[a].state # session[a]
  /\ rendered' = [rendered EXCEPT ![a] = Snapshot(session[a], now)]
  /\ lastOp' = NoOp
  /\ UNCHANGED <<now, photo_markers, nextId, session, feed, sweep, storeUpdates,
                 blobs, comments, viewCalls, mount>>

\* capturePhoto without the zone rule: the row is stored as sent.
capturePhotoNoZone(a, pos) ==
  LET newMarker == [id |-> nextId, position |-> pos, h3_res7 |-> latLngToCell(pos),
                    timestamp |-> now, likes |-> 0, dislikes |-> 0,
                    expires_at |-> NULL,
                    views |-> DefaultViews]
  IN /\ nextId <= MaxPhotos
     /\ FeedHasRoom
     /\ photo_markers' = [i \in Ids \cup {nextId} |->
                            IF i = nextId THEN newMarker ELSE photo_markers[i]]
     /\ nextId' = nextId + 1
     /\ feed' = Publish(<<[eventType |-> "INSERT", row |-> newMarker]>>)
     /\ session' = [session EXCEPT ![a].markers = <<newMarker>> \o @]
     /\ rendered' = [rendered EXCEPT ![a] = Snapshot(session'[a], now)]
     /\ lastOp' = [op |-> "insert", actor |-> a, id |-> nextId,
                   before |-> photo_markers]
     /\ blobs' = blobs \cup Assets({nextId})
     /\ UNCHANGED <<now, sweep, storeUpdates, comments, viewCalls, mount>>

\* capturePhoto: insert a marker with expires_at null in the h3 cell of the
\* current position; database.addMarker returns the stored row, which is
\* put in front of the marker list.
capturePhoto(a, pos) ==
  LET cell == latLngToCell(pos)
      newMarker == [id |-> nextId, position |-> pos, h3_res7 |-> cell,
                    timestamp |-> now, likes |-> 0, dislikes |-> 0,
                    expires_at |-> NULL,
                    views |-> DefaultViews]
      inserted == [i \in Ids \cup {nextId} |->
                     IF i = nextId THEN newMarker ELSE photo_markers[i]]
      store == RebalanceOnInsert(inserted, cell, now)
      evs == <<[eventType |-> "INSERT", row |-> store[nextId]]>>
               \o UpdateEvents(photo_markers, store)
  IN /\ nextId <= MaxPhotos
     /\ FeedHasRoom
     /\ photo_markers' = store
     /\ nextId' = nextId + 1
     /\ feed' = Publish(evs)
     /\ session' = [session EXCEPT ![a].markers = <<store[nextId]>> \o @]
     /\ rendered' = [rendered EXCEPT ![a] = Snapshot(session'[a], now)]
     /\ lastOp' = [op |-> "insert", actor |-> a, id |-> nextId,
                   before |-> photo_markers]
     /\ blobs' = blobs \cup Assets({nextId})
     /\ UNCHANGED <<now, sweep, storeUpdates, comments, viewCalls, mount>>

\* The part of handleLike and handleDislike after the guards: the state
\* updates, then database.updateMarker with the values computed from the
\* marker of the closure.  update(updates).eq('id', id).select().single()
\* fails when no row has that id, and the catch block reloads the markers.
Interact(a, id, kind, marker, updates) ==
  LET optimistic ==
        [session[a] EXCEPT
           !.markers = MapSeq(@, LAMBDA m :
                         IF m.id = id
                         THEN IF kind = "like"
                              THEN [m EXCEPT !.likes = @ + 1]
                              ELSE [m EXCEPT !.dislikes = @ + 1]
                         ELSE m),
           !.userLikes = IF kind = "like" THEN @ + 1 ELSE @,
           !.userDislikes = IF kind = "dislike" THEN @ + 1 ELSE @,
           !.cardInteractions = [i \in DOMAIN @ \cup {id} |->
                                   IF i = id THEN kind ELSE @[i]]]
      info == [op |-> kind, actor |-> a, id |-> id, local |-> marker,
               likesWas |-> session[a].userLikes,
               dislikesWas |-> session[a].userDislikes]
  IN IF id \in Ids
     THEN /\ FeedHasRoom
          /\ photo_markers' = [photo_markers EXCEPT ![id] =
                                 [@ EXCEPT !.likes = IF kind = "like" THEN updates.count ELSE @,
                                           !.dislikes = IF kind = "dislike" THEN updates.count ELSE @,
                                           !.expires_at = updates.expires_at]]
          /\ feed' = Publish(<<[eventType |-> "UPDATE", row |-> photo_markers'[id]]>>)
          /\ session' = [session EXCEPT ![a] = optimistic]
          /\ storeUpdates' = [storeUpdates EXCEPT ![a][id] = @ + 1]
          /\ lastOp' = info @@ [outcome |-> "stored", before |-> photo_markers[id]]
          /\ UNCHANGED <<now, nextId, rendered, sweep, blobs, comments, viewCalls, mount>>
     ELSE /\ session' = [session EXCEPT ![a] = [optimistic EXCEPT !.markers = GetMarkers]]
          /\ rendered' = [rendered EXCEPT ![a] = Snapshot(session'[a], now)]
          /\ lastOp' = info @@ [outcome |-> "failed"]
          /\ UNCHANGED <<now, photo_markers, nextId, feed, sweep, storeUpdates,
                         blobs, comments, viewCalls, mount>>

\* An early return of a handler: a notification and nothing else.
Rejected(a, kind, why) ==
  /\ lastOp' = [op |-> kind, actor |-> a, outcome |-> why]
  /\ UNCHANGED <<now, photo_markers, nextId, session, rendered, feed, sweep,
                 storeUpdates, blobs, comments, viewCalls, mount>>

\* A handler is invoked from a popup of the last render, with the state of
\* that render in its closure (the disabled attribute of the buttons repeats
\* the guards of the handlers from the same render).  The initial photos are
\* interchangeable, so the photos are first clicked in the order of their ids.
Shown(a, id) ==
  /\ id \in rendered[a].shown
  /\ \A j \in 1..(id - 1) : \E b \in Sessions : j \in DOMAIN session[b].cardInteractions

\* The clicks of all sessions together are bounded.
RECURSIVE Clicks(_)
Clicks(A) ==
  IF A = {} THEN 0
  ELSE LET a == CHOOSE x \in A : TRUE
       IN session[a].userLikes + session[a].userDislikes + Clicks(A \ {a})

CanClick == Clicks(Sessions) < MaxClicks

\* A like computed from the stored row instead of the marker of the closure.
handleLikeInStore(a, id) ==
  LET r == rendered[a].state
      marker == IF id \in Ids THEN photo_markers[id] ELSE FindMarker(r.markers, id)
      isInfinite == marker.expires_at = NULL
      newExpiresAt == IF isInfinite THEN NULL ELSE ExpiryPlus(marker.expires_at)
  IN /\ Shown(a, id)
     /\ IF id \in DOMAIN r.cardInteractions
        THEN Rejected(a, "like", "already")
        ELSE /\ CanClick
             /\ Interact(a, id, "like", marker,
                         [count |-> marker.likes + 1, expires_at |-> newExpiresAt])

handleLike(a, id) ==
  LET r == rendered[a].state
      marker == FindMarker(r.markers, id)
      isInfinite == marker.expires_at = NULL
      newExpiresAt == IF isInfinite THEN NULL ELSE ExpiryPlus(marker.expires_at)
  IN /\ Shown(a, id)
     /\ IF id \in DOMAIN r.cardInteractions
        THEN Rejected(a, "like", "already")
        ELSE /\ CanClick
             /\ Interact(a, id, "like", marker,
                         [count |-> marker.likes + 1, expires_at |-> newExpiresAt])

handleDislike(a, id) ==
  LET r == rendered[a].state
      marker == FindMarker(r.markers, id)
      isInfinite == marker.expires_at = NULL
      newExpiresAt == IF isInfinite THEN NULL ELSE ExpiryMinus(marker.expires_at)
  IN /\ Shown(a, id)
     /\ IF id \in DOMAIN r.cardInteractions
        THEN Rejected(a, "dislike", "already")
        ELSE IF r.userLikes <= r.userDislikes
        THEN Rejected(a, "dislike", "gate")
        ELSE /\ CanClick
             /\ Interact(a, id, "dislike", marker,
                         [count |-> marker.dislikes + 1, expires_at |-> newExpiresAt])

\* The selection with lte instead of lt.
ExpiredUpTo(store, t) ==
  {i \in DOMAIN store : store[i].expires_at # NULL /\ store[i].expires_at[1] <= t}

\* .not('expires_at', 'is', null).lt('expires_at', nowIso)
Expired(store, t) ==
  {i \in DOMAIN store : store[i].expires_at # NULL /\ store[i].expires_at[1] < t}

ErrorResponse == <<[status |-> 500, error |-> "message"]>>
DeletedResponse(n) == <<[status |-> 200, deleted |-> n]>>

\* A failed read taken for an empty selection.
FetchResponseIgnoresError(ok, expiredMarkers) ==
  IF expiredMarkers = {} THEN DeletedResponse(0) ELSE NULL

\* if (fetchError) ... status 500; if (expiredMarkers.length === 0) ...
\* deleted: 0; no response yet otherwise.
FetchResponse(ok, expiredMarkers) ==
  IF ~ok THEN ErrorResponse
  ELSE IF expiredMarkers = {} THEN DeletedResponse(0)
  ELSE NULL

\* A sweep that goes on to the delete step with an empty selection.
SweepFetchNoEarlyReturn(s, ok) ==
  LET expiredMarkers == IF ok THEN Expired(photo_markers, now) ELSE {}
  IN /\ sweep[s].pc = "idle"
     /\ sweep' = [sweep EXCEPT ![s] =
                    IF ~ok
                    THEN [pc |-> "idle", expiredIds |-> {}]
                    ELSE [pc |-> "fetched", expiredIds |-> expiredMarkers]]
     /\ lastOp' = [op |-> "fetch", sweep |-> s, ok |-> ok,
                   afterDelete |-> lastOp.op = "delete",
                   selected |-> expiredMarkers,
                   response |-> IF ~ok THEN ErrorResponse ELSE NULL]
     /\ UNCHANGED <<now, photo_markers, nextId, session, rendered, feed,
                    storeUpdates, blobs, comments, viewCalls, mount>>

\* delete-expired-photos, step 1: select the expired rows; a failed read is
\* answered with status 500 and an empty selection with deleted: 0.
\* ok tells whether the read succeeds.
SweepFetch(s, ok) ==
  LET expiredMarkers == IF ok THEN Expired(photo_markers, now) ELSE {}
  IN /\ sweep[s].pc = "idle"
     /\ sweep' = [sweep EXCEPT ![s] =
                    IF expiredMarkers = {}
                    THEN [pc |-> "idle", expiredIds |-> {}]
                    ELSE [pc |-> "fetched", expiredIds |-> expiredMarkers]]
     /\ lastOp' = [op |-> "fetch", sweep |-> s, ok |-> ok,
                   afterDelete |-> lastOp.op = "delete",
                   selected |-> expiredMarkers,
                   response |-> FetchResponse(ok, expiredMarkers)]
     /\ UNCHANGED <<now, photo_markers, nextId, session, rendered, feed,
                    storeUpdates, blobs, comments, viewCalls, mount>>

\* The rows matched by eq('id', first id) instead of in('id', expiredIds).
RowsFirst(store, ids) ==
  IF ids \cap DOMAIN store = {} THEN {}
  ELSE {CHOOSE i \in ids \cap DOMAIN store : \A j \in ids \cap DOMAIN store : i <= j}

\* The rows matched by in('id', expiredIds).
RowsIn(store, ids) == ids \cap DOMAIN store

\* A storage loop that gives up at the first failed remove.
RemoveAssetsUntilFailure(objects, ids, failing) ==
  IF failing = {} THEN objects \ Assets(ids) ELSE objects

\* The storage loop: every remove is awaited and its result dropped.
RemoveAssets(objects, ids, failing) == objects \ (Assets(ids) \ failing)

\* steps 2 and 3: the storage loop removes the full image and the thumbnail
\* of every selected row and ignores the result of each remove (failing are
\* the objects whose removal fails); then delete().in('id', expiredIds),
\* answered with status 500 when it fails (ok false) and with the count of
\* the selected ids otherwise.  The loop touches only the bucket, so it is
\* taken together with the delete.
SweepDelete(s, failing, ok) ==
  LET gone == RowsIn(photo_markers, sweep[s].expiredIds)
      cells == {photo_markers[i].h3_res7 : i \in gone}
      kept == [i \in Ids \ gone |-> photo_markers[i]]
      store == RebalanceOnDelete(kept, cells)
      evs == DeleteEvents(gone) \o UpdateEvents(kept, store)
  IN /\ sweep[s].pc = "fetched"
     /\ blobs' = RemoveAssets(blobs, sweep[s].expiredIds, failing)
     /\ sweep' = [sweep EXCEPT ![s] = [pc |-> "idle", expiredIds |-> {}]]
     /\ IF ok
        THEN /\ FeedHasRoom
             /\ photo_markers' = store
             /\ feed' = Publish(evs)
             /\ lastOp' = [op |-> "delete", sweep |-> s, ok |-> ok,
                           before |-> photo_markers, gone |-> gone,
                           selected |-> sweep[s].expiredIds, failing |-> failing,
                           response |-> DeletedResponse(Cardinality(sweep[s].expiredIds))]
        ELSE /\ lastOp' = [op |-> "delete", sweep |-> s, ok |-> ok,
                           before |-> photo_markers, gone |-> {},
                           selected |-> sweep[s].expiredIds, failing |-> failing,
                           response |-> ErrorResponse]
             /\ UNCHANGED <<photo_markers, feed>>
     /\ UNCHANGED <<now, nextId, session, rendered, storeUpdates, comments, viewCalls, mount>>

\* handlePostComment: database.addComment stores a comment for the photo
\* whose comment card is open.
postComment(a, id) ==
  /\ id \in rendered[a].shown
  /\ Cardinality(comments) < MaxComments
  /\ comments' = comments \cup {[id |-> Cardinality(comments) + 1, photo_id |-> id]}
  /\ lastOp' = [op |-> "comment", actor |-> a, id |-> id]
  /\ UNCHANGED <<now, photo_markers, nextId, session, rendered, feed, sweep,
                 storeUpdates, blobs, viewCalls, mount>>

Next ==
  \/ Tick
  \/ \E a \in Sessions : FeedDeliver(a)
  \/ \E a \in Sessions : Render(a)
  \/ \E a \in Sessions, pos \in Positions : capturePhoto(a, pos)
  \/ \E a \in Sessions, id \in ClickIds : handleLike(a, id)
  \/ \E a \in Sessions, id \in ClickIds : handleDislike(a, id)
  \/ \E s \in Sweeps : SweepFetch(s, TRUE)
  \/ \E s \in Sweeps : SweepDelete(s, {}, TRUE)

Spec == Init /\ [][Next]_vars

\* ------------------------------------------------- the sweep under load
\* A zone in competition: the eighth photo was captured at time 0 by another
\* client, and a session is mounted afterwards; the function is invoked by
\* two overlapping schedules.
CompetingRow(i) ==
  [InitialRow(i) EXCEPT !.position = IF i > InitialPhotos THEN "posA2" ELSE @,
                        !.expires_at = <<LIFESPAN_HOURS>>]

CompetingStore == [i \in 1..(InitialPhotos + 1) |-> CompetingRow(i)]

CompetingSession ==
  [EmptySession EXCEPT !.markers = [i \in 1..(InitialPhotos + 1) |-> CompetingRow(i)]]

InitReaper ==
  /\ now = 0
  /\ photo_markers = CompetingStore
  /\ nextId = InitialPhotos + 2
  /\ session = [a \in {"a1"} |-> CompetingSession]
  /\ rendered = [a \in {"a1"} |-> Snapshot(CompetingSession, 0)]
  /\ feed = [a \in {"a1"} |-> <<>>]
  /\ sweep = [s \in {"s1", "s2"} |-> [pc |-> "idle", expiredIds |-> {}]]
  /\ storeUpdates = [a \in {"a1"} |-> [i \in PhotoIds |-> 0]]
  /\ lastOp = NoOp
  /\ blobs = Assets(1..(InitialPhotos + 1))
  /\ comments = {}
  /\ viewCalls = NoViewCalls
  /\ mount = [a \in DOMAIN session |-> Mounted]

\* The storage objects whose removal may fail in one run of the loop: none,
\* or one object of the first selected photo.
FailingSets(s) ==
  LET S == sweep[s].expiredIds
  IN IF S = {} THEN {{}}
     ELSE {{}} \cup {{x} : x \in Assets({CHOOSE i \in S : \A j \in S : i <= j})}

NextReaper ==
  \/ Tick
  \/ \E a \in Sessions : FeedDeliver(a)
  \/ \E a \in Sessions : Render(a)
  \/ \E a \in Sessions, id \in 1..MaxReaperClickId : handleLike(a, id)
  \/ \E a \in Sessions, id \in 1..MaxReaperClickId : handleDislike(a, id)
  \/ \E a \in Sessions, id \in 1..MaxReaperClickId : postComment(a, id)
  \/ \E s \in Sweeps, ok \in BOOLEAN : SweepFetch(s, ok)
  \/ \E s \in Sweeps, ok \in BOOLEAN : \E failing \in FailingSets(s) :
        SweepDelete(s, failing, ok)

SpecReaper == InitReaper /\ [][NextReaper]_vars

\* ------------------------------------------------- several clients
\* Three clients have the app open on the same store; each holds its own
\* copy of the marker list and is fed by its own subscription.  The first of
\* them captures the photo that takes the zone into competition.
Actors == {"a1", "a2", "a3"}

InitActors ==
  /\ now = 0
  /\ photo_markers = [i \in 1..InitialPhotos |-> InitialRow(i)]
  /\ nextId = InitialPhotos + 1
  /\ session = [a \in Actors |-> LoadedSession]
  /\ rendered = [a \in Actors |-> Snapshot(LoadedSession, 0)]
  /\ feed = [a \in Actors |-> <<>>]
  /\ sweep = [s \in {"s1"} |-> [pc |-> "idle", expiredIds |-> {}]]
  /\ storeUpdates = [a \in Actors |-> [i \in PhotoIds |-> 0]]
  /\ lastOp = NoOp
  /\ blobs = Assets(1..InitialPhotos)
  /\ comments = {}
  /\ viewCalls = NoViewCalls
  /\ mount = [a \in DOMAIN session |-> Mounted]

NextActors ==
  \/ \E a \in Sessions : FeedDeliver(a)
  \/ \E a \in Sessions : Render(a)
  \/ nextId <= MaxActorPhotos /\ capturePhoto("a1", "posA2")
  \/ \E a \in Sessions, id \in 1..MaxActorClickId : handleLike(a, id)
  \/ \E a \in Sessions, id \in 1..MaxActorClickId : handleDislike(a, id)

SpecActors == InitActors /\ [][NextActors]_vars

\* ------------------------------------------------- the feed, row by row
\* The subscription callback runs once for every row event (payload.new or
\* payload.old of one row), and the component renders after each run: the
\* events of a statement that changed several rows are seen one at a time.
FeedDeliverEvent(a) ==
  /\ feed[a] # <<>>
  /\ feed' = [feed EXCEPT ![a] =
                IF Len(Head(@)) <= 1 THEN Tail(@) ELSE <<Tail(Head(@))>> \o Tail(@)]
  /\ session' = [session EXCEPT ![a].markers =
                   IF Head(feed[a]) = <<>> THEN @ ELSE ApplyEvent(@, Head(Head(feed[a])))]
  /\ rendered' = [rendered EXCEPT ![a] = Snapshot(session'[a], now)]
  /\ lastOp' = NoOp
  /\ UNCHANGED <<now, photo_markers, nextId, sweep, storeUpdates,
                 blobs, comments, viewCalls, mount>>

\* Client a1 captures photos; the other client only reads, through
\* getMarkers at its mount and the change feed afterwards.
Readers == Sessions \ {"a1"}

InitFeed ==
  /\ now = 0
  /\ photo_markers = [i \in 1..InitialPhotos |-> InitialRow(i)]
  /\ nextId = InitialPhotos + 1
  /\ session = [a \in {"a1", "a2"} |-> LoadedSession]
  /\ rendered = [a \in {"a1", "a2"} |-> Snapshot(LoadedSession, 0)]
  /\ feed = [a \in {"a1", "a2"} |-> <<>>]
  /\ sweep = [s \in {"s1"} |-> [pc |-> "idle", expiredIds |-> {}]]
  /\ storeUpdates = [a \in {"a1", "a2"} |-> [i \in PhotoIds |-> 0]]
  /\ lastOp = NoOp
  /\ blobs = Assets(1..InitialPhotos)
  /\ comments = {}
  /\ viewCalls = NoViewCalls
  /\ mount = [a \in DOMAIN session |-> Mounted]

NextFeed ==
  \/ Tick
  \/ \E a \in Sessions : FeedDeliverEvent(a)
  \/ \E pos \in Positions : capturePhoto("a1", pos)
  \/ \E s \in Sweeps : SweepFetch(s, TRUE)
  \/ \E s \in Sweeps : SweepDelete(s, {}, TRUE)

SpecFeed == InitFeed /\ [][NextFeed]_vars

\* ------------------------------------------------------- the view counter
\* A row untouched by the update of the function.
KeepViews(store, id) == store

\* An update that also stamps the row with the time of the view.
IncrementViewsStamped(store, id) ==
  [store EXCEPT ![id].views = @ + 1, ![id].timestamp = now]

\* update photo_markers set views = views + 1 where id = marker_id
IncrementViews(store, id) == [store EXCEPT ![id].views = @ + 1]

RECURSIVE SumOver(_, _)
SumOver(f, S) ==
  IF S = {} THEN 0
  ELSE LET x == CHOOSE y \in S : TRUE IN f[x] + SumOver(f, S \ {x})

\* The calls of the function issued so far.
ViewCallsMade ==
  Cardinality(DOMAIN viewCalls.call) + SumOver(viewCalls.ran, PhotoIds)

\* handleMarkerPopupOpen up to the await: database.incrementViews(markerId)
\* sends the call of increment_photo_marker_views.
handleMarkerPopupOpen(a, id) ==
  /\ id \in rendered[a].shown
  /\ a \notin DOMAIN viewCalls.call
  /\ ViewCallsMade < MaxViewCalls
  /\ viewCalls' = [viewCalls EXCEPT !.call =
                     [b \in DOMAIN @ \cup {a} |->
                        IF b = a
                        THEN [pc |-> "called", id |-> id,
                              pre |-> IF id \in Ids THEN <<photo_markers[id].views>> ELSE NULL]
                        ELSE @[b]]]
  /\ lastOp' = NoOp
  /\ UNCHANGED <<now, photo_markers, nextId, session, rendered, feed, sweep,
                 storeUpdates, blobs, comments, mount>>

\* The first statement of the function.  The update locks the row until the
\* transaction of the call ends, so it waits for a call that has updated the
\* same row and has not returned.
ViewsUpdate(a) ==
  LET c == viewCalls.call[a]
      store == IF c.id \in Ids THEN IncrementViews(photo_markers, c.id) ELSE photo_markers
  IN /\ a \in DOMAIN viewCalls.call
     /\ c.pc = "called"
     /\ \A b \in DOMAIN viewCalls.call \ {a} :
          ~(viewCalls.call[b].pc = "updated" /\ viewCalls.call[b].id = c.id)
     /\ FeedHasRoom
     /\ photo_markers' = store
     /\ feed' = Publish(UpdateEvents(photo_markers, store))
     /\ viewCalls' = [viewCalls EXCEPT !.call[a].pc = "updated",
                                       !.ran[c.id] = @ + 1]
     /\ lastOp' = NoOp
     /\ UNCHANGED <<now, nextId, session, rendered, sweep, storeUpdates,
                    blobs, comments, mount>>

\* The second statement, return (select views from photo_markers where id =
\* marker_id), and the rest of handleMarkerPopupOpen: the returned value is
\* put into the marker of the list.
ViewsReturn(a) ==
  LET c == viewCalls.call[a]
      newViews == IF c.id \in Ids THEN <<photo_markers[c.id].views>> ELSE NULL
  IN /\ a \in DOMAIN viewCalls.call
     /\ c.pc = "updated"
     /\ viewCalls' = [viewCalls EXCEPT !.call = [b \in DOMAIN @ \ {a} |-> @[b]]]
     /\ session' = [session EXCEPT ![a].markers =
                      MapSeq(@, LAMBDA m : IF m.id = c.id /\ newViews # NULL
                                           THEN [m EXCEPT !.views = newViews[1]]
                                           ELSE m)]
     /\ lastOp' = [op |-> "views", actor |-> a, id |-> c.id, pre |-> c.pre,
                   newViews |-> newViews]
     /\ UNCHANGED <<now, photo_markers, nextId, rendered, feed, sweep,
                    storeUpdates, blobs, comments, mount>>

\* Two clients open popups of the same photo while likes go on.
NextViews ==
  \/ \E a \in Sessions : FeedDeliver(a)
  \/ \E a \in Sessions : Render(a)
  \/ \E a \in Sessions, id \in 1..MaxActorClickId : handleMarkerPopupOpen(a, id)
  \/ \E a \in Sessions : ViewsUpdate(a)
  \/ \E a \in Sessions : ViewsReturn(a)
  \/ \E a \in Sessions, id \in 1..MaxActorClickId : handleLike(a, id)

SpecViews == InitFeed /\ [][NextViews]_vars

\* ------------------------------------------------ every writer together
\* A zone in competition with one client that captures, likes, dislikes and
\* opens popups while the sweeps run.
NextFrame ==
  \/ Tick
  \/ \E a \in Sessions : FeedDeliver(a)
  \/ \E a \in Sessions : Render(a)
  \/ \E a \in Sessions, pos \in Positions : capturePhoto(a, pos)
  \/ \E a \in Sessions, id \in 1..MaxActorClickId : handleLike(a, id)
  \/ \E a \in Sessions, id \in 1..MaxActorClickId : handleDislike(a, id)
  \/ \E a \in Sessions, id \in 1..MaxActorClickId : handleMarkerPopupOpen(a, id)
  \/ \E a \in Sessions : ViewsUpdate(a)
  \/ \E a \in Sessions : ViewsReturn(a)
  \/ \E s \in Sweeps : SweepFetch(s, TRUE)
  \/ \E s \in Sweeps : SweepDelete(s, {}, TRUE)

SpecFrame == InitReaper /\ [][NextFrame]_vars

\* ------------------------------------------------------- the mount effect
\* The effect has started: testSupabaseConnection is awaited, the variable
\* subscription of the effect is null and the marker list is empty.
Mounting == [pc |-> "testing", mounted |-> TRUE, subscribed |-> FALSE, data |-> <<>>]

\* setupSubscription after the connection test: return when it failed, else
\* subscription = database.subscribeToMarkers(...) and the call of
\* loadMarkers, whose query is sent.  The function goes on whether or not
\* the component is still mounted.
ConnectionTested(a, isConnected) ==
  /\ mount[a].pc = "testing"
  /\ mount' = [mount EXCEPT ![a] =
                 IF isConnected
                 THEN [@ EXCEPT !.pc = "loading", !.subscribed = TRUE]
                 ELSE [@ EXCEPT !.pc = "failed"]]
  /\ lastOp' = NoOp
  /\ UNCHANGED <<now, photo_markers, nextId, session, rendered, feed, sweep,
                 storeUpdates, blobs, comments, viewCalls>>

\* The store answers the query of database.getMarkers.
LoadQuery(a) ==
  /\ mount[a].pc = "loading"
  /\ mount' = [mount EXCEPT ![a].pc = "replying", ![a].data = GetMarkers]
  /\ lastOp' = NoOp
  /\ UNCHANGED <<now, photo_markers, nextId, session, rendered, feed, sweep,
                 storeUpdates, blobs, comments, viewCalls>>

\* loadMarkers after its await: setMarkers(data).
LoadReturn(a) ==
  /\ mount[a].pc = "replying"
  /\ session' = [session EXCEPT ![a].markers = mount[a].data]
  /\ rendered' = [rendered EXCEPT ![a] = Snapshot(session'[a], now)]
  /\ mount' = [mount EXCEPT ![a].pc = "loaded", ![a].data = <<>>]
  /\ lastOp' = [op |-> "load", actor |-> a]
  /\ UNCHANGED <<now, photo_markers, nextId, feed, sweep, storeUpdates,
                 blobs, comments, viewCalls>>

\* The cleanup of the effect: if (subscription) subscription.unsubscribe().
\* The variable is assigned after the connection test; events of a released
\* channel are not delivered.
Unmount(a) ==
  /\ mount[a].mounted
  /\ mount' = [mount EXCEPT ![a].mounted = FALSE,
                            ![a].subscribed = IF mount[a].pc = "testing" THEN @ ELSE FALSE]
  /\ feed' = [feed EXCEPT ![a] = IF mount[a].pc = "testing" THEN @ ELSE <<>>]
  /\ lastOp' = [op |-> "unmount", actor |-> a]
  /\ UNCHANGED <<now, photo_markers, nextId, session, rendered, sweep,
                 storeUpdates, blobs, comments, viewCalls>>

\* Client a1 is mounted and writes; client a2 opens the app meanwhile.
InitMount ==
  /\ now = 0
  /\ photo_markers = [i \in 1..InitialPhotos |-> InitialRow(i)]
  /\ nextId = InitialPhotos + 1
  /\ session = [a \in {"a1", "a2"} |-> IF a = "a1" THEN LoadedSession ELSE EmptySession]
  /\ rendered = [a \in {"a1", "a2"} |-> Snapshot(session[a], 0)]
  /\ feed = [a \in {"a1", "a2"} |-> <<>>]
  /\ sweep = [s \in {"s1"} |-> [pc |-> "idle", expiredIds |-> {}]]
  /\ storeUpdates = [a \in {"a1", "a2"} |-> [i \in PhotoIds |-> 0]]
  /\ lastOp = NoOp
  /\ blobs = Assets(1..InitialPhotos)
  /\ comments = {}
  /\ viewCalls = NoViewCalls
  /\ mount = [a \in {"a1", "a2"} |-> IF a = "a1" THEN Mounted ELSE Mounting]

NextMount ==
  \/ Tick
  \/ \E a \in Readers, isConnected \in BOOLEAN : ConnectionTested(a, isConnected)
  \/ \E a \in Readers : LoadQuery(a)
  \/ \E a \in Readers : LoadReturn(a)
  \/ \E a \in Readers : Unmount(a)
  \/ \E a \in Sessions : FeedDeliver(a)
  \/ \E a \in Sessions : Render(a)
  \/ nextId <= MaxActorPhotos /\ capturePhoto("a1", "posA2")
  \/ \E id \in 1..MaxActorClickId : handleLike("a1", id)
  \/ \E s \in Sweeps : SweepFetch(s, TRUE)
  \/ \E s \in Sweeps : SweepDelete(s, {}, TRUE)

SpecMount == InitMount /\ [][NextMount]_vars

\* ------------------------------------------------- the sweep on schedule
\* The function is invoked again and again and no call to the store or to
\* the bucket fails; an invocation that has read goes on to its delete, and
\* the feed delivers what it holds.
NextSchedule ==
  \/ Tick
  \/ \E a \in Sessions : FeedDeliver(a)
  \/ \E a \in Sessions : Render(a)
  \/ \E a \in Sessions, id \in 1..MaxReaperClickId : handleLike(a, id)
  \/ \E a \in Sessions, id \in 1..MaxReaperClickId : postComment(a, id)
  \/ \E s \in Sweeps : SweepFetch(s, TRUE)
  \/ \E s \in Sweeps : SweepDelete(s, {}, TRUE)

\* The step of an invocation from its read to its answer, as far as the
\* invocation itself goes: SweepDelete is the only action that takes it.
SweepGoesOn(s) ==
  /\ sweep[s].pc = "fetched"
  /\ FeedHasRoom
  /\ sweep' = [sweep EXCEPT ![s] = [pc |-> "idle", expiredIds |-> {}]]

SpecSchedule ==
  /\ InitReaper
  /\ [][NextSchedule]_vars
  /\ WF_vars(\E a \in Sessions : FeedDeliver(a))
  /\ \A s \in {"s1", "s2"} : WF_vars(SweepFetch(s, TRUE))
  /\ \A s \in {"s1", "s2"} : WF_sweep(SweepGoesOn(s))

\* ------------------------------------------------------------ properties
\* The lifecycle states of a stored photo at time t.
IsInfinite(m) == m.expires_at = NULL
IsExpired(m, t) == m.expires_at # NULL /\ t >= m.expires_at[1]
IsActive(m, t) == m.expires_at # NULL /\ m.expires_at[1] > t

\* The zone of a photo, from its position.
ZoneMates(store, id) ==
  {i \in DOMAIN store :
     latLngToCell(store[i].position) = latLngToCell(store[id].position)}

StoredInteraction(kind) ==
  /\ lastOp.op = kind
  /\ lastOp.outcome = "stored"

\* C1: in every reachable state of the store, every photo of a zone that
\* holds seven or fewer photos has expires_at = null.
C1_SmallZoneIsInfinite ==
  \A i \in Ids :
    Cardinality(ZoneOf(photo_markers, photo_markers[i].h3_res7)) <= ZONE_INFINITE_MAX
      => photo_markers[i].expires_at = NULL

C3_LikeExtendsStoredExpiry ==
  (StoredInteraction("like") /\ lastOp.before.expires_at # NULL) =>
    /\ photo_markers[lastOp.id].expires_at = <<lastOp.before.expires_at[1] + LIFESPAN_HOURS>>
    /\ photo_markers[lastOp.id].likes = lastOp.before.likes + 1

\* C4: after a successful dislike on a photo whose stored expires_at was
\* not null, the stored expires_at is the value stored before minus 168 h
\* and the stored dislikes is one greater than before; and a dislike reaches
\* the store only if the likes of the session exceeded its dislikes when the
\* dislike was issued.
C4_DislikeShortensStoredExpiry ==
  StoredInteraction("dislike") =>
    /\ lastOp.likesWas > lastOp.dislikesWas
    /\ lastOp.before.expires_at # NULL =>
         /\ photo_markers[lastOp.id].expires_at = <<lastOp.before.expires_at[1] - LIFESPAN_HOURS>>
         /\ photo_markers[lastOp.id].dislikes = lastOp.before.dislikes + 1

\* C5: a like or dislike on a photo whose stored expires_at is null adds
\* one to the stored counter and leaves the stored expires_at null.
C5_InfiniteStaysInfinite ==
  \A kind \in {"like", "dislike"} :
    (StoredInteraction(kind) /\ lastOp.before.expires_at = NULL) =>
      /\ photo_markers[lastOp.id].expires_at = NULL
      /\ IF kind = "like"
         THEN photo_markers[lastOp.id].likes = lastOp.before.likes + 1
         ELSE photo_markers[lastOp.id].dislikes = lastOp.before.dislikes + 1

\* C6: a dislike attempted while the likes of the session do not exceed its
\* dislikes is rejected: it changes neither the store nor the counters and
\* the interaction record of the session.
C6_GatedDislikeRejected ==
  [][\A a \in Sessions, id \in ClickIds :
       (handleDislike(a, id) /\ session[a].userLikes <= session[a].userDislikes)
         => /\ photo_markers' = photo_markers
            /\ storeUpdates' = storeUpdates
            /\ session'[a].userLikes = session[a].userLikes
            /\ session'[a].userDislikes = session[a].userDislikes
            /\ session'[a].cardInteractions = session[a].cardInteractions]_vars

\* C7: within one session, at most one like or dislike per photo results in
\* a store update.
C7_OneInteractionPerPhoto ==
  \A a \in Sessions, id \in PhotoIds : storeUpdates[a][id] <= 1

C9_DeletesOnlyExpired ==
  lastOp.op = "delete" =>
    \A i \in lastOp.gone :
      /\ lastOp.before[i].expires_at # NULL
      /\ lastOp.before[i].expires_at[1] <= now

\* C10: a stored photo that is EXPIRED (expires_at non-null, now >=
\* expires_at) is EXPIRED in the next state too, unless it is deleted.
C10_ExpiredNeverRevives ==
  [][\A i \in DOMAIN photo_markers \cap DOMAIN photo_markers' :
       IsExpired(photo_markers[i], now) => IsExpired(photo_markers'[i], now')]_vars

\* The photos that the selection of the sweep reads as expired, by the row.
ReadsExpired(m, t) == m.expires_at # NULL /\ m.expires_at[1] < t

SweepDeleted == lastOp.op = "delete" /\ lastOp.ok

\* The zones that a completed delete has taken from eight or more photos
\* to seven or fewer.
DroppedZones ==
  {cell \in {lastOp.before[i].h3_res7 : i \in lastOp.gone} :
     /\ Cardinality(ZoneOf(lastOp.before, cell)) > ZONE_INFINITE_MAX
     /\ Cardinality(ZoneOf(photo_markers, cell)) <= ZONE_INFINITE_MAX}

C12_SecondSweepDeletesNothing ==
  [][(/\ SweepDeleted
      /\ lastOp.selected = {i \in DOMAIN lastOp.before : ReadsExpired(lastOp.before[i], now)}
      /\ lastOp'.op = "fetch"
      /\ lastOp'.ok)
       => /\ lastOp'.response = DeletedResponse(0)
          /\ photo_markers' = photo_markers
          /\ blobs' = blobs
          /\ comments' = comments]_vars

\* A sweep run directly after a completed delete finds nothing, while
\* photos with a scheduled expiry remain in the store.
C12_Witness ==
  /\ lastOp.op = "fetch"
  /\ lastOp.afterDelete
  /\ lastOp.ok
  /\ lastOp.response = DeletedResponse(0)
  /\ \E i \in Ids : IsActive(photo_markers[i], now)

\* C13: a sweep whose read succeeds while no photo of the store is expired
\* answers status 200 with deleted: 0, ends there, and changes no row, no
\* comment and no storage object.
C13_EmptySweepChangesNothing ==
  [][(/\ lastOp'.op = "fetch"
      /\ lastOp'.ok
      /\ \A i \in Ids : ~IsExpired(photo_markers[i], now))
       => /\ lastOp'.response = DeletedResponse(0)
          /\ sweep'[lastOp'.sweep].pc = "idle"
          /\ photo_markers' = photo_markers
          /\ blobs' = blobs
          /\ comments' = comments]_vars

\* A sweep has answered deleted: 0 over a store that holds a commented
\* photo with a scheduled expiry still ahead.
C13_Witness ==
  /\ lastOp.op = "fetch"
  /\ lastOp.ok
  /\ lastOp.response = DeletedResponse(0)
  /\ \A i \in Ids : ~IsExpired(photo_markers[i], now)
  /\ \E c \in comments : /\ c.photo_id \in Ids
                         /\ IsActive(photo_markers[c.photo_id], now)

\* The delete of a sweep that overlapped another: a row of its selection
\* was gone before it deleted, or the other sweep still holds its selection.
Overlapped ==
  \/ lastOp.selected \ DOMAIN lastOp.before # {}
  \/ \E s \in Sweeps \ {lastOp.sweep} : sweep[s].pc = "fetched"

\* C14: two sweeps that overlap both end without an error, every row they
\* selected is gone afterwards, and no row is removed that is not expired
\* when it is deleted.
C14_OverlappingSweepsAreSafe ==
  (SweepDeleted /\ Overlapped) =>
    /\ lastOp.response[1].status = 200
    /\ lastOp.selected \cap Ids = {}
    /\ \A i \in lastOp.gone : IsExpired(lastOp.before[i], now)

\* C15: the deleted count of a sweep is the number of rows that this sweep
\* removed from the store.
C15_CountIsRowsRemoved ==
  SweepDeleted => lastOp.response[1].deleted = Cardinality(lastOp.gone)

\* C16: when the removal of a storage object fails during a sweep, the
\* other objects of the selected photos are still removed and all selected
\* rows, the one of the failed object included, are deleted.
C16_AssetFailureIsSoft ==
  (SweepDeleted /\ lastOp.failing # {}) =>
    /\ lastOp.response[1].status = 200
    /\ lastOp.selected \cap Ids = {}
    /\ blobs \cap Assets(lastOp.selected) \subseteq lastOp.failing

\* A sweep over several photos has lost the removal of one object and has
\* deleted the rows.
C16_Witness ==
  /\ SweepDeleted
  /\ lastOp.failing # {}
  /\ lastOp.failing \subseteq blobs
  /\ Cardinality(lastOp.gone) > 1

\* C17: a sweep whose read fails answers status 500 and removes no storage
\* object and no row; a sweep whose batch delete fails answers status 500,
\* with no deleted count, and removes no row.
C17_StoreFailureIsHard ==
  [][/\ (lastOp'.op = "fetch" /\ ~lastOp'.ok)
          => /\ lastOp'.response[1].status = 500
             /\ "deleted" \notin DOMAIN lastOp'.response[1]
             /\ sweep'[lastOp'.sweep].pc = "idle"
             /\ photo_markers' = photo_markers
             /\ blobs' = blobs
     /\ (lastOp'.op = "delete" /\ ~lastOp'.ok)
          => /\ lastOp'.response[1].status = 500
             /\ "deleted" \notin DOMAIN lastOp'.response[1]
             /\ photo_markers' = photo_markers]_vars

\* The batch delete of a sweep has failed with rows selected.
C17_Witness ==
  /\ lastOp.op = "delete"
  /\ ~lastOp.ok
  /\ lastOp.selected \cap Ids # {}
  /\ lastOp.response[1].status = 500

\* C18: every comment refers to a photo that exists.
C18_CommentsCascade ==
  \A c \in comments : c.photo_id \in Ids

\* C19: from one state to the next the stored likes and the stored dislikes
\* of a photo do not decrease, unless the step is an insert whose zone reset
\* sets them to 0.
C19_CountersNeverDecrease ==
  [][\A i \in Ids \cap DOMAIN photo_markers' :
       \/ /\ photo_markers'[i].likes >= photo_markers[i].likes
          /\ photo_markers'[i].dislikes >= photo_markers[i].dislikes
       \/ /\ lastOp'.op = "insert"
          /\ photo_markers'[i].likes = 0
          /\ photo_markers'[i].dislikes = 0]_vars

\* The photos of one zone are all of infinite life or all of finite life.
ZoneUniform(ms) ==
  \A i, j \in DOMAIN ms :
    ms[i].h3_res7 = ms[j].h3_res7
      => (ms[i].expires_at = NULL <=> ms[j].expires_at = NULL)

\* C20: a reader never sees a zone of which some photos carry the state of
\* a rebalance (a finite expiry after a reset, infinite life after a revert)
\* and the others the state from before it: neither in the table nor in the
\* marker list that the change feed maintains.
C20_RebalanceIsAllOrNothing ==
  /\ ZoneUniform(photo_markers)
  /\ \A a \in Readers : ZoneUniform(session[a].markers)

\* C21: the views of a photo are the number of calls of the function that
\* have updated it, they never decrease, and a call returns at least the
\* views the photo had when the call was sent plus one.
C21_IncrementViewsIsAtomic ==
  [][/\ \A i \in Ids : photo_markers[i].views = viewCalls.ran[i]
     /\ \A i \in Ids \cap DOMAIN photo_markers' :
          photo_markers'[i].views >= photo_markers[i].views
     /\ lastOp'.op = "views"
          => /\ lastOp'.newViews # NULL
             /\ lastOp'.newViews[1] >= lastOp'.pre[1] + 1
             /\ lastOp'.newViews[1] <= viewCalls.ran[lastOp'.id]]_vars

\* Calls on one photo have overlapped: a call returns the increment of
\* another call with its own, on a photo that has been liked meanwhile.
C21_Witness ==
  /\ lastOp.op = "views"
  /\ lastOp.newViews[1] > lastOp.pre[1] + 1
  /\ photo_markers[lastOp.id].views = MaxViewCalls
  /\ photo_markers[lastOp.id].likes > 0

\* C22: the zone id of a stored photo is the cell of its stored position,
\* and no step changes the position, the zone id or the creation timestamp
\* of a photo that is in the store before and after it.
C22_PlaceAndBirthAreImmutable ==
  [][/\ \A i \in DOMAIN photo_markers' :
          photo_markers'[i].h3_res7 = latLngToCell(photo_markers'[i].position)
     /\ \A i \in Ids \cap DOMAIN photo_markers' :
          /\ photo_markers'[i].position = photo_markers[i].position
          /\ photo_markers'[i].h3_res7 = photo_markers[i].h3_res7
          /\ photo_markers'[i].timestamp = photo_markers[i].timestamp]_vars

\* A photo captured by the client, in another cell and at a later time than
\* the first photos, is in the store next to a photo that has been liked and
\* viewed, after a sweep has deleted rows.
C22_Witness ==
  /\ SweepDeleted
  /\ lastOp.gone # {}
  /\ \E i, j \in Ids :
       /\ photo_markers[i].timestamp > 0
       /\ photo_markers[i].h3_res7 = "cellB"
       /\ photo_markers[j].likes > 0
       /\ photo_markers[j].views > 0

\* C23: a component that has been unmounted holds no subscribed channel.
C23_CleanupReleasesTheChannel ==
  \A a \in Sessions : ~mount[a].mounted => ~mount[a].subscribed

\* A like has been stored for a FINITE photo on which one other like was
\* stored after the copy of the liking client was taken.
SecondOfTwoLikes ==
  /\ StoredInteraction("like")
  /\ lastOp.local.expires_at # NULL
  /\ lastOp.before.likes = lastOp.local.likes + 1
  /\ lastOp.before.expires_at = ExpiryPlus(lastOp.local.expires_at)

\* C24: a like of a FINITE photo by a client whose copy lacks exactly one
\* stored like of it leaves the stored likes and the stored expires_at as
\* that like left them: one like and one lifespan more than before the
\* two likes, not two.
C24_SecondLikeIsLost ==
  [][(/\ lastOp'.op = "like"
      /\ lastOp'.outcome = "stored"
      /\ LET copy == FindMarker(rendered[lastOp'.actor].state.markers, lastOp'.id)
             row == photo_markers[lastOp'.id]
         IN /\ copy.expires_at # NULL
            /\ row.likes = copy.likes + 1
            /\ row.expires_at = ExpiryPlus(copy.expires_at))
       => /\ photo_markers'[lastOp'.id].likes = photo_markers[lastOp'.id].likes
          /\ photo_markers'[lastOp'.id].expires_at = photo_markers[lastOp'.id].expires_at]_vars

\* Two different clients have each had one like of the photo stored, and
\* the second was lost.
C24_Witness ==
  /\ SecondOfTwoLikes
  /\ \E a \in Sessions \ {lastOp.actor} : storeUpdates[a][lastOp.id] = 1
  /\ storeUpdates[lastOp.actor][lastOp.id] = 1
  /\ photo_markers[lastOp.id].likes = 1
  /\ photo_markers[lastOp.id].expires_at = <<2 * LIFESPAN_HOURS>>

\* Photo i is stored with an expiry that the sweep reads as past.
Reapable(i) == i \in Ids /\ ReadsExpired(photo_markers[i], now)

\* Nothing of photo i is left: no row, no storage object, no comment.
Reaped(i) ==
  /\ i \notin Ids
  /\ blobs \cap Assets({i}) = {}
  /\ \A c \in comments : c.photo_id # i

\* C25: with the sweep on schedule, a photo whose expiry is past is in the
\* end deleted with its storage objects and its comments, unless a like has
\* moved its expiry into the future.  The photo is the first one, which is
\* the one that is liked and commented.
C25_ExpiredPhotosAreReaped ==
  Reapable(1) ~> (Reaped(1) \/ (1 \in Ids /\ ~Reapable(1)))

\* C26: a like or a dislike that is stored leaves the photo of infinite life
\* if it was of infinite life in the store, and of finite life if it was of
\* finite life in the store.
C26_InteractionKeepsLifeKind ==
  (StoredInteraction("like") \/ StoredInteraction("dislike")) =>
    (photo_markers[lastOp.id].expires_at = NULL <=> lastOp.before.expires_at = NULL)

\* The photo ids of the marker list of a client.
ListedIds(a) == {session[a].markers[k].id : k \in 1..Len(session[a].markers)}

\* The mount effect of a client has run to its end and the feed has nothing
\* left to deliver to it.
CaughtUp(a) ==
  /\ mount[a].mounted
  /\ mount[a].pc = "loaded"
  /\ feed[a] = <<>>

\* C27: once the load has returned and every event has been delivered, the
\* marker list of the client holds the photos of the store and no others.
C27_ClientMissesNoChange ==
  \A a \in Readers : CaughtUp(a) => ListedIds(a) = Ids

\* C28: the marker list of a client never holds two entries with the same
\* photo id.
C28_MarkerListHasNoDuplicates ==
  \A a \in Sessions :
    \A k, l \in 1..Len(session[a].markers) :
      session[a].markers[k].id = session[a].markers[l].id => k = l

\* C29: after a like or a dislike whose store update failed, the likes and
\* dislikes of the session are what they were before the attempt, the
\* session has no interaction recorded for the photo, and its marker list
\* is the one of the store.
C29_FailedInteractionLeavesNoTrace ==
  (lastOp.op \in {"like", "dislike"} /\ lastOp.outcome = "failed") =>
    /\ session[lastOp.actor].userLikes = lastOp.likesWas
    /\ session[lastOp.actor].userDislikes = lastOp.dislikesWas
    /\ lastOp.id \notin DOMAIN session[lastOp.actor].cardInteractions
    /\ session[lastOp.actor].markers = GetMarkers

\* An invocation of the function has just answered.
SweepEnded ==
  \/ lastOp.op = "delete"
  \/ lastOp.op = "fetch" /\ lastOp.response # NULL

\* C30: when a sweep has ended, with a deleted count or with an error, every
\* row of the store has its full image and its thumbnail in the bucket.
C30_SurvivorsKeepTheirAssets ==
  SweepEnded => \A i \in Ids : Assets({i}) \subseteq blobs
====
